---- MODULE Spec2Model ----
(***************************************************************************)
(* A model of atar (src/src/main.rs, src/src/lib.rs): one run of the       *)
(* `deploy` or `undeploy` command.  The process has a main thread and,     *)
(* after a successful deploy, a signal listener thread.  Its environment   *)
(* is the terraform binary (every invocation may fail to launch, exit 0 or *)
(* exit nonzero), the filesystem (the configuration path may be            *)
(* re-pointed or removed while the process waits), and the delivery of     *)
(* SIGINT/SIGTERM.  Standard output and standard error are taken to be     *)
(* writable, so println!/eprintln! never panic.  The build unwinds on      *)
(* panic (the Rust default).                                               *)
(***************************************************************************)
EXTENDS Integers, Sequences, FiniteSets, TLC

VARIABLES
  argv,       \* env::args(): the command line, program name first
  stdout,     \* what `terraform output -json` printed, as a JSON document
  outputs,    \* what deploy's decoding of that document returned
  cmd,        \* args[1]: "deploy" or "undeploy"
  file,       \* --terraform-path as given on the command line
  vars,       \* the HashMap<String, String> of --<name> <value> pairs
  canon,      \* filesystem: what canonicalize(file).parent() yields now
  work,       \* filesystem: state of each directory under <temp>/atar
  pc,         \* per thread: position in the code
  fn,         \* per thread: library function being executed
  caller,     \* per thread: who called the library function
  arg,        \* per thread: the (file, vars) the library function was given
  src,        \* per thread: src_dir local of the library function
  wd,         \* per thread: work_dir local of the library function
  guard,      \* the DestroyGuard value of run_deploy
  hook,       \* whether run_deploy's panic hook is installed
  registered, \* whether signal-hook owns SIGINT/SIGTERM
  pending,    \* a delivered signal not yet read by the Signals iterator
  chan,       \* number of messages in the mpsc channel
  txAlive,    \* whether the channel's Sender exists
  sigs,       \* number of signals delivered so far
  log,        \* history: every terraform invocation, in start order
  err,        \* history: what was written to the error stream
  exit        \* process exit status

vars_all == <<argv, stdout, outputs,
              cmd, file, vars, canon, work, pc, fn, caller, arg, src, wd, guard,
              hook, registered, pending, chan, txAlive, sigs, log, err, exit>>

\* Number of SIGINT/SIGTERM deliveries explored.
MaxSignals == 2

Threads == {"main", "listener"}

Paths == {"/cfg/main.tf", "link/main.tf"}
Dirs == {"/cfg", "/alt"}
NoDir == "<unresolvable>"
None == "<none>"

\* The --<name> <value> pairs a command line may carry: any subset of these
\* names, each with its value.
VarKeys == {"region", "name"}
VarValue(k) == IF k = "region" THEN "us-east-1" ELSE "a=b"
VarMaps == {[k \in K |-> VarValue(k)] : K \in SUBSET VarKeys}

----------------------------------------------------------------------------
(* lib.rs *)

\* format!("{:x}", Sha256(src_dir)) of lib.rs:50-52, on the modelled paths.
Sha256Hex(d) ==
  CASE d = "/cfg" -> "2e96833ac24005629cb06e8858e8be4afc12c34ad7aee6db68f320214c282ed3"
    [] d = "/alt" -> "fd0c15a11bcc8e1ec321ccb217757b903da349a9fd68d73e73b3cbc82325ce4c"

\* env::temp_dir().join("atar").join(hash) of lib.rs:53.
WorkDirOf(d) == "/tmp/atar/" \o Sha256Hex(d)

WorkDirs == {WorkDirOf(d) : d \in Dirs}

WorkStates == {"absent", "partial", "full"}

\* The outcomes of copy_dir_recursive(src, dst) for the top-level call:
\* create_dir_all(dst) failed ("absent"), a later step failed ("partial"),
\* or everything was copied ("full").
CopyOutcomes == {"absent", "partial", "full"}

\* The iteration orders `for (k, v) in vars` may take over a HashMap.
Orders(m) ==
  {s \in [1..Cardinality(DOMAIN m) -> DOMAIN m] :
     \A i, j \in DOMAIN s : i # j => s[i] # s[j]}

\* VarArgs that leaves out the first entry iterated.
VarArgsSkippingOne(m, ks) ==
  LET F[s \in Seq(DOMAIN m)] ==
        IF s = <<>> THEN <<>>
        ELSE <<"-var", Head(s) \o "=" \o m[Head(s)]>> \o F[Tail(s)]
  IN IF ks = <<>> THEN <<>> ELSE F[Tail(ks)]

RECURSIVE VarArgs(_, _)
\* cmd.arg("-var").arg(format!("{}={}", k, v)) for every entry, in order ks.
VarArgs(m, ks) ==
  IF ks = <<>> THEN <<>>
  ELSE <<"-var", Head(ks) \o "=" \o m[Head(ks)]>> \o VarArgs(m, Tail(ks))

Goto(t, l) == pc' = [pc EXCEPT ![t] = l]

\* Command::new("terraform")...status() / .output(): the launch itself may
\* fail (an Err from status()), otherwise the child runs until it exits.
Launch(t, sub, dir, args, waiting) ==
  \E launched \in BOOLEAN :
    /\ log' = Append(log, [sub |-> sub, dir |-> dir, args |-> args, by |-> t,
                           caller |-> caller[t], stdout |-> None,
                           status |-> IF launched THEN "running"
                                      ELSE "launch_failed"])
    /\ Goto(t, IF launched THEN waiting ELSE "ret_err")

Running(t) == {i \in DOMAIN log : log[i].by = t /\ log[i].status = "running"}

\* The child exits with captured stdout `out`; `status.success()` decides
\* between `next` and bail!.
FinishWith(t, out, next) ==
  \E ok \in BOOLEAN :
    /\ log' = [i \in DOMAIN log |->
                 IF i \in Running(t)
                 THEN [log[i] EXCEPT !.status = IF ok THEN "ok" ELSE "failed",
                                     !.stdout = IF ok THEN out ELSE None]
                 ELSE log[i]]
    /\ Goto(t, IF ok THEN next ELSE "ret_err")

\* Finish with the exit status left unchecked.
FinishIgnoringStatus(t, next) ==
  \E ok \in BOOLEAN :
    /\ log' = [i \in DOMAIN log |->
                 IF i \in Running(t)
                 THEN [log[i] EXCEPT !.status = IF ok THEN "ok" ELSE "failed"]
                 ELSE log[i]]
    /\ Goto(t, next)

\* The same for a child whose stdout is not captured.
Finish(t, next) == FinishWith(t, None, next)

\* A call of lib_deploy / lib_undeploy on thread t.
Call(t, f, a, who) ==
  /\ pc' = [pc EXCEPT ![t] = "probe"]
  /\ fn' = [fn EXCEPT ![t] = f]
  /\ arg' = [arg EXCEPT ![t] = a]
  /\ caller' = [caller EXCEPT ![t] = who]
  /\ src' = [src EXCEPT ![t] = None]
  /\ wd' = [wd EXCEPT ![t] = None]

\* ensure_terraform_installed: launch `terraform -version`.
ProbeStart(t) ==
  /\ pc[t] = "probe"
  /\ Launch(t, "-version", ".", <<"-version">>, "probe_wait")
  /\ UNCHANGED <<argv, stdout, outputs,
                 cmd, file, vars, canon, work, fn, caller, arg, src, wd, guard,
                 hook, registered, pending, chan, txAlive, sigs, err, exit>>

\* ProbeFinish without the `!status.success()` check.
ProbeFinishIgnoringStatus(t) ==
  /\ pc[t] = "probe_wait"
  /\ FinishIgnoringStatus(t, "canon")
  /\ UNCHANGED <<argv, stdout, outputs,
                 cmd, file, vars, canon, work, fn, caller, arg, src, wd, guard,
                 hook, registered, pending, chan, txAlive, sigs, err, exit>>

\* ensure_terraform_installed: the probe exits.
ProbeFinish(t) ==
  /\ pc[t] = "probe_wait"
  /\ Finish(t, "canon")
  /\ UNCHANGED <<argv, stdout, outputs,
                 cmd, file, vars, canon, work, fn, caller, arg, src, wd, guard,
                 hook, registered, pending, chan, txAlive, sigs, err, exit>>

\* Canonicalize of a teardown that keeps the directory resolved by deploy
\* (the session's), and resolves the path only when there is none.
CanonicalizeOncePerProcess(t) ==
  /\ pc[t] = "canon"
  /\ LET known == {log[i].dir : i \in {j \in DOMAIN log : log[j].sub = "apply"}} IN
       IF known # {} /\ caller[t] # "cmd"
       THEN /\ Goto(t, "prepare")
            /\ src' = [src EXCEPT ![t] =
                         CHOOSE d \in Dirs : WorkDirOf(d) \in known]
       ELSE IF canon = NoDir
            THEN Goto(t, "ret_err") /\ UNCHANGED src
            ELSE Goto(t, "prepare") /\ src' = [src EXCEPT ![t] = canon]
  /\ UNCHANGED <<argv, stdout, outputs,
                 cmd, file, vars, canon, work, fn, caller, arg, wd, guard,
                 hook, registered, pending, chan, txAlive, sigs, log, err, exit>>

\* file.canonicalize()?.parent()? of deploy and undeploy.
Canonicalize(t) ==
  /\ pc[t] = "canon"
  /\ IF canon = NoDir
     THEN Goto(t, "ret_err") /\ UNCHANGED src
     ELSE Goto(t, "prepare") /\ src' = [src EXCEPT ![t] = canon]
  /\ UNCHANGED <<argv, stdout, outputs,
                 cmd, file, vars, canon, work, fn, caller, arg, wd, guard,
                 hook, registered, pending, chan, txAlive, sigs, log, err, exit>>

\* AfterPrepare of a library whose undeploy initializes before destroying.
AfterPrepareAlwaysInit(f) == "init"

\* The stage of deploy / undeploy that follows prepare_work_dir.
AfterPrepare(f) == IF f = "deploy" THEN "init" ELSE "destroy"

\* prepare_work_dir that completes a directory left partially populated.
PrepareWorkDirRefreshing(t) ==
  /\ pc[t] = "prepare"
  /\ LET w == WorkDirOf(src[t]) IN
       IF work[w] = "full"
       THEN /\ work' = work
            /\ wd' = [wd EXCEPT ![t] = w]
            /\ Goto(t, AfterPrepare(fn[t]))
       ELSE \E outcome \in CopyOutcomes \ {"absent"} :
              /\ work' = [work EXCEPT ![w] = outcome]
              /\ IF outcome = "full"
                 THEN wd' = [wd EXCEPT ![t] = w] /\ Goto(t, AfterPrepare(fn[t]))
                 ELSE wd' = wd /\ Goto(t, "ret_err")
  /\ UNCHANGED <<argv, stdout, outputs,
                 cmd, file, vars, canon, fn, caller, arg, src, guard,
                 hook, registered, pending, chan, txAlive, sigs, log, err, exit>>

\* prepare_work_dir without the `!work.exists()` test: it copies every time.
PrepareWorkDirAlwaysCopying(t) ==
  /\ pc[t] = "prepare"
  /\ LET w == WorkDirOf(src[t]) IN
       \E outcome \in CopyOutcomes :
         /\ work' = [work EXCEPT ![w] = outcome]
         /\ IF outcome = "full"
            THEN wd' = [wd EXCEPT ![t] = w] /\ Goto(t, AfterPrepare(fn[t]))
            ELSE wd' = wd /\ Goto(t, "ret_err")
  /\ UNCHANGED <<argv, stdout, outputs,
                 cmd, file, vars, canon, fn, caller, arg, src, guard,
                 hook, registered, pending, chan, txAlive, sigs, log, err, exit>>

\* prepare_work_dir(src_dir), called from deploy and undeploy.
PrepareWorkDir(t) ==
  /\ pc[t] = "prepare"
  /\ LET w == WorkDirOf(src[t]) IN
       IF work[w] # "absent"
       THEN /\ work' = work
            /\ wd' = [wd EXCEPT ![t] = w]
            /\ Goto(t, AfterPrepare(fn[t]))
       ELSE \E outcome \in CopyOutcomes :
              /\ work' = [work EXCEPT ![w] = outcome]
              /\ IF outcome = "full"
                 THEN wd' = [wd EXCEPT ![t] = w] /\ Goto(t, AfterPrepare(fn[t]))
                 ELSE wd' = wd /\ Goto(t, "ret_err")
  /\ UNCHANGED <<argv, stdout, outputs,
                 cmd, file, vars, canon, fn, caller, arg, src, guard,
                 hook, registered, pending, chan, txAlive, sigs, log, err, exit>>

InitArgs == <<"init">>

\* deploy: launch `terraform init` in work_dir.
InitStart(t) ==
  /\ pc[t] = "init"
  /\ Launch(t, "init", wd[t], InitArgs, "init_wait")
  /\ UNCHANGED <<argv, stdout, outputs,
                 cmd, file, vars, canon, work, fn, caller, arg, src, wd, guard,
                 hook, registered, pending, chan, txAlive, sigs, err, exit>>

\* deploy: init exits.
InitFinish(t) ==
  /\ pc[t] = "init_wait"
  /\ Finish(t, "apply")
  /\ UNCHANGED <<argv, stdout, outputs,
                 cmd, file, vars, canon, work, fn, caller, arg, src, wd, guard,
                 hook, registered, pending, chan, txAlive, sigs, err, exit>>

ApplyArgs(m, ks) == <<"apply", "-auto-approve">> \o VarArgs(m, ks)

\* deploy: launch `terraform apply -auto-approve -var ...` in work_dir.
ApplyStart(t) ==
  /\ pc[t] = "apply"
  /\ \E ks \in Orders(arg[t].vars) :
       Launch(t, "apply", wd[t], ApplyArgs(arg[t].vars, ks), "apply_wait")
  /\ UNCHANGED <<argv, stdout, outputs,
                 cmd, file, vars, canon, work, fn, caller, arg, src, wd, guard,
                 hook, registered, pending, chan, txAlive, sigs, err, exit>>

\* deploy: apply exits.
ApplyFinish(t) ==
  /\ pc[t] = "apply_wait"
  /\ Finish(t, "output")
  /\ UNCHANGED <<argv, stdout, outputs,
                 cmd, file, vars, canon, work, fn, caller, arg, src, wd, guard,
                 hook, registered, pending, chan, txAlive, sigs, err, exit>>

OutputArgs == <<"output", "-json">>

\* deploy: launch `terraform output -json` in work_dir.
OutputStart(t) ==
  /\ pc[t] = "output"
  /\ Launch(t, "output", wd[t], OutputArgs, "parse")
  /\ UNCHANGED <<argv, stdout, outputs,
                 cmd, file, vars, canon, work, fn, caller, arg, src, wd, guard,
                 hook, registered, pending, chan, txAlive, sigs, err, exit>>

\* What `terraform output -json` may print, as serde_json sees it.
Payloads == {"object", "malformed"}

\* deploy: output exits; on success its stdout is parsed as a JSON object
\* (serde_json::from_slice(..)?), which fails when the payload is not one.
OutputFinish(t) ==
  /\ pc[t] = "parse"
  /\ \E out \in Payloads :
       FinishWith(t, out, IF out = "object" THEN "ret_ok" ELSE "ret_err")
  /\ UNCHANGED <<argv, stdout, outputs,
                 cmd, file, vars, canon, work, fn, caller, arg, src, wd, guard,
                 hook, registered, pending, chan, txAlive, sigs, err, exit>>

DestroyArgs(m, ks) == <<"destroy", "-auto-approve">> \o VarArgs(m, ks)

\* undeploy: launch `terraform destroy -auto-approve -var ...` in work_dir.
DestroyStart(t) ==
  /\ pc[t] = "destroy"
  /\ \E ks \in Orders(arg[t].vars) :
       Launch(t, "destroy", wd[t], DestroyArgs(arg[t].vars, ks), "destroy_wait")
  /\ UNCHANGED <<argv, stdout, outputs,
                 cmd, file, vars, canon, work, fn, caller, arg, src, wd, guard,
                 hook, registered, pending, chan, txAlive, sigs, err, exit>>

\* DestroyFinish that runs destroy again after a failure.
DestroyFinishRetrying(t) ==
  /\ pc[t] = "destroy_wait"
  /\ \E ok \in BOOLEAN :
       /\ log' = [i \in DOMAIN log |->
                    IF i \in Running(t)
                    THEN [log[i] EXCEPT !.status = IF ok THEN "ok" ELSE "failed"]
                    ELSE log[i]]
       /\ Goto(t, IF ok THEN "ret_ok" ELSE "destroy")
  /\ UNCHANGED <<argv, stdout, outputs,
                 cmd, file, vars, canon, work, fn, caller, arg, src, wd, guard,
                 hook, registered, pending, chan, txAlive, sigs, err, exit>>

\* undeploy: destroy exits.
DestroyFinish(t) ==
  /\ pc[t] = "destroy_wait"
  /\ Finish(t, "ret_ok")
  /\ UNCHANGED <<argv, stdout, outputs,
                 cmd, file, vars, canon, work, fn, caller, arg, src, wd, guard,
                 hook, registered, pending, chan, txAlive, sigs, err, exit>>

----------------------------------------------------------------------------
(* lib.rs: decoding of the outputs *)

\* serde_json::Value, as far as the decoding looks into it.
JString(s) == [kind |-> "string", v |-> s]
JNumber(n) == [kind |-> "number", v |-> n]
JBool(b) == [kind |-> "bool", v |-> b]
JNull == [kind |-> "null", v |-> None]
JArray(a) == [kind |-> "array", v |-> a]
JObject(o) == [kind |-> "object", v |-> o]

\* Bytes that are not a JSON document, and no bytes captured at all.
NotJson == [kind |-> "malformed", v |-> None]
NoDocument == [kind |-> "none", v |-> None]

\* The result of the decoding: Ok(results), an Err, or not there yet.
NoOutputs == [result |-> "none", map |-> <<>>]
DecodeError == [result |-> "error", map |-> <<>>]
DecodeOk(m) == [result |-> "ok", map |-> m]

Digit(d) ==
  CASE d = 0 -> "0" [] d = 1 -> "1" [] d = 2 -> "2" [] d = 3 -> "3"
    [] d = 4 -> "4" [] d = 5 -> "5" [] d = 6 -> "6" [] d = 7 -> "7"
    [] d = 8 -> "8" [] d = 9 -> "9"

\* Display of an integer number.
RECURSIVE Decimal(_)
Decimal(n) ==
  IF n < 0 THEN "-" \o Decimal(-n)
  ELSE IF n < 10 THEN Digit(n)
  ELSE Decimal(n \div 10) \o Digit(n % 10)

\* The field names of the modelled objects, in the order in which
\* serde_json's Map iterates over them.
KeyOrder == <<"k", "sensitive", "type", "value">>

\* Value::to_string(): the compact JSON text of a value (the modelled
\* strings hold no character that needs an escape).
RECURSIVE ToJsonText(_), JoinItems(_), JoinFields(_, _)
ToJsonText(j) ==
  CASE j.kind = "string" -> "\"" \o j.v \o "\""
    [] j.kind = "number" -> Decimal(j.v)
    [] j.kind = "bool" -> IF j.v THEN "true" ELSE "false"
    [] j.kind = "null" -> "null"
    [] j.kind = "array" -> "[" \o JoinItems(j.v) \o "]"
    [] j.kind = "object" ->
         "{" \o JoinFields(j.v, SelectSeq(KeyOrder, LAMBDA k : k \in DOMAIN j.v))
             \o "}"

JoinItems(a) ==
  IF a = <<>> THEN ""
  ELSE ToJsonText(Head(a))
         \o (IF Tail(a) = <<>> THEN "" ELSE "," \o JoinItems(Tail(a)))

JoinFields(o, ks) ==
  IF ks = <<>> THEN ""
  ELSE "\"" \o Head(ks) \o "\":" \o ToJsonText(o[Head(ks)])
         \o (IF Tail(ks) = <<>> THEN "" ELSE "," \o JoinFields(o, Tail(ks)))

\* val.get("value"): Some(..) only for an object that has the field.
HasValue(val) == val.kind = "object" /\ "value" \in DOMAIN val.v

\* OutputString that takes the JSON text of every value, strings included.
OutputStringAlwaysJson(inner) == ToJsonText(inner)

\* lib.rs:129-133: a string is taken as it is, anything else as JSON text.
OutputString(inner) ==
  IF inner.kind = "string" THEN inner.v ELSE ToJsonText(inner)

\* lib.rs:125-138: the document must be a map of names to values
\* (from_slice into HashMap<String, Value>); names without "value" are
\* skipped.
Decode(doc) ==
  IF doc.kind # "object" THEN DecodeError
  ELSE DecodeOk([k \in {n \in DOMAIN doc.v : HasValue(doc.v[n])} |->
                   OutputString(doc.v[k].v["value"])])

\* The wrappers `terraform output -json` is made to print per name.
Wrappers ==
  { JObject(<<>>),
    JObject("value" :> JString("bar")),
    JObject("value" :> JNumber(42)),
    JObject("value" :> JNumber(-7)),
    JObject("value" :> JNull),
    JObject("value" :> JBool(TRUE)),
    JObject("value" :> JArray(<<JNumber(1), JString("a")>>)),
    JObject("value" :> JObject("k" :> JString("v"))),
    JObject(("sensitive" :> JBool(FALSE)) @@ ("type" :> JString("string"))
              @@ ("value" :> JString(""))),
    JObject("type" :> JString("string")),
    JString("bar") }

OutputNames == {"foo", "n", "x"}

\* The captured stdout of a successful `terraform output -json`.
Documents ==
  {JObject(o) : o \in UNION {[K -> Wrappers] : K \in SUBSET OutputNames}}
    \cup {NotJson, JArray(<<>>), JString("bar"), JNumber(42), JNull}

\* deploy, from the parse to the return of the results.
DecodeOutputs ==
  /\ pc["main"] = "decode"
  /\ outputs' = Decode(stdout)
  /\ Goto("main", IF Decode(stdout).result = "ok" THEN "ret_ok" ELSE "ret_err")
  /\ UNCHANGED <<argv, stdout, cmd, file, vars, canon, work, fn, caller, arg,
                 src, wd, guard, hook, registered, pending, chan, txAlive,
                 sigs, log, err, exit>>

----------------------------------------------------------------------------
(* main.rs *)

\* A command-line argument: `dashes` hyphens followed by `rest`, which does
\* not begin with a hyphen.
Arg(d, r) == [dashes |-> d, rest |-> r]

RECURSIVE Hyphens(_)
Hyphens(n) == IF n = 0 THEN "" ELSE "-" \o Hyphens(n - 1)

\* The argument as a String.
Text(a) == Hyphens(a.dashes) \o a.rest

\* Number of arguments after the command explored.
MaxArgs == 6

ArgTokens ==
  {Arg(1, "t"), Arg(2, "region"), Arg(2, "debug"), Arg(1, "h"),
   Arg(0, "/cfg/main.tf")}

\* env::args() of the explored runs.
CommandLines ==
  {<<Arg(0, "atar"), Arg(0, c)>> \o r :
     c \in {"deploy", "undeploy"},
     r \in UNION {[1..n -> ArgTokens] : n \in 0..MaxArgs}}
    \cup {<<Arg(0, "atar")>>, <<Arg(0, "atar"), Arg(2, "version")>>,
          <<Arg(0, "atar"), Arg(0, "plan")>>}

\* args.retain(|a| a != "--debug")
Retain(args) == SelectSeq(args, LAMBDA a : a # Arg(2, "debug"))

IsHelp(a) == a \in {Arg(1, "h"), Arg(2, "help")}
IsPathFlag(a) == a \in {Arg(2, "terraform-path"), Arg(1, "t")}

\* arg.starts_with("--") and arg.trim_start_matches("--")
StartsWithTwoHyphens(a) == a.dashes >= 2
TrimTwoHyphens(a) == Arg(a.dashes % 2, a.rest)

\* HashMap::insert that keeps the value a key already has.
InsertKeepingFirst(m, k, v) ==
  [x \in DOMAIN m \cup {k} |-> IF x \in DOMAIN m THEN m[x] ELSE v]

\* HashMap::insert
Insert(m, k, v) == [x \in DOMAIN m \cup {k} |-> IF x = k THEN v ELSE m[x]]

Parsed(o, f, m) == [outcome |-> o, file |-> f, vars |-> m]

\* The `while i < args.len()` loop of run, entered at args[i - 1] (Rust
\* counts from 0), and the check of the path after it.
RECURSIVE ParseFrom(_, _, _, _)
ParseFrom(args, i, path, m) ==
  IF i > Len(args)
  THEN IF path = None THEN Parsed("err", None, <<>>) ELSE Parsed("call", path, m)
  ELSE IF IsPathFlag(args[i])
  THEN IF i + 1 > Len(args) THEN Parsed("err", None, <<>>)
       ELSE ParseFrom(args, i + 2, Text(args[i + 1]), m)
  ELSE IF StartsWithTwoHyphens(args[i])
  THEN IF i + 1 > Len(args) THEN Parsed("err", None, <<>>)
       ELSE ParseFrom(args, i + 2, path,
                      Insert(m, Text(TrimTwoHyphens(args[i])), Text(args[i + 1])))
  ELSE Parsed("err", None, <<>>)

\* run up to the call of run_deploy / run_undeploy: "ok" is `return Ok(())`
\* after a help or version text, "err" a bail!, "exit" the process::exit(1)
\* of an unknown command.
ParseCommand(given) ==
  LET args == Retain(given) IN
    IF Len(args) <= 1 \/ IsHelp(args[2]) THEN Parsed("ok", None, <<>>)
    ELSE IF args[2] = Arg(2, "version") THEN Parsed("ok", None, <<>>)
    ELSE IF args[2] \in {Arg(0, "deploy"), Arg(0, "undeploy")}
    THEN IF Len(args) >= 3 /\ IsHelp(args[3]) THEN Parsed("ok", None, <<>>)
         ELSE ParseFrom(args, 3, None, <<>>)
    ELSE Parsed("exit", None, <<>>)

\* run, from env::args() to the call of run_deploy / run_undeploy or to its
\* return.
ParseArguments ==
  /\ pc["main"] = "args"
  /\ LET r == ParseCommand(argv) IN
       /\ cmd' = IF r.outcome = "call" THEN Text(Retain(argv)[2]) ELSE cmd
       /\ file' = r.file
       /\ vars' = r.vars
       /\ err' = IF r.outcome = "exit" THEN Append(err, "Unknown command") ELSE err
       /\ exit' = IF r.outcome = "exit" THEN "1" ELSE exit
       /\ pc' = CASE r.outcome = "call" -> [pc EXCEPT !["main"] = "start"]
                  [] r.outcome = "ok" -> [pc EXCEPT !["main"] = "run_ok"]
                  [] r.outcome = "err" -> [pc EXCEPT !["main"] = "run_err"]
                  [] r.outcome = "exit" -> [t \in Threads |-> "exited"]
  /\ UNCHANGED <<argv, stdout, outputs, canon, work, fn, caller, arg, src, wd,
                 guard, hook, registered, pending, chan, txAlive, sigs, log>>

Request == [file |-> file, vars |-> vars]

\* run: dispatch on args[1]; run_deploy / run_undeploy print the variables
\* and call the library.
Run ==
  /\ pc["main"] = "start"
  /\ Call("main", cmd, Request, "cmd")
  /\ UNCHANGED <<argv, stdout, outputs,
                 cmd, file, vars, canon, work, guard, hook, registered,
                 pending, chan, txAlive, sigs, log, err, exit>>

\* DeployReturns without the `?`: the guard is created after an Err as well.
DeployReturnsIgnoringErr ==
  /\ pc["main"] \in {"ret_ok", "ret_err"}
  /\ fn["main"] = "deploy"
  /\ Goto("main", "set_hook")
  /\ guard' = [state |-> "live", file |-> file, vars |-> vars]
  /\ UNCHANGED <<argv, stdout, outputs,
                 cmd, file, vars, canon, work, fn, caller, arg, src, wd,
                 hook, registered, pending, chan, txAlive, sigs, log, err, exit>>

\* run_deploy: `lib_deploy(..)?`, the outputs are printed, and the guard is
\* created from clones of file and vars.
DeployReturns ==
  /\ pc["main"] \in {"ret_ok", "ret_err"}
  /\ fn["main"] = "deploy"
  /\ IF pc["main"] = "ret_err"
     THEN Goto("main", "run_err") /\ UNCHANGED guard
     ELSE /\ Goto("main", "set_hook")
          /\ guard' = [state |-> "live", file |-> file, vars |-> vars]
  /\ UNCHANGED <<argv, stdout, outputs,
                 cmd, file, vars, canon, work, fn, caller, arg, src, wd,
                 hook, registered, pending, chan, txAlive, sigs, log, err, exit>>

\* run_deploy: panic::set_hook with a closure owning clones of file and vars.
SetPanicHook ==
  /\ pc["main"] = "set_hook"
  /\ hook' = [installed |-> TRUE, fh |-> file, vh |-> vars]
  /\ Goto("main", "signals_new")
  /\ UNCHANGED <<argv, stdout, outputs,
                 cmd, file, vars, canon, work, fn, caller, arg, src, wd,
                 guard, registered, pending, chan, txAlive, sigs, log, err, exit>>

\* impl Drop for DestroyGuard: lib_undeploy(&self.file, &self.vars, ..).
DropGuard(how) ==
  /\ guard.state = "live"
  /\ guard' = [guard EXCEPT !.state = "dropped"]
  /\ Call("main", "undeploy", [file |-> guard.file, vars |-> guard.vars], how)

\* A panic on thread t with run_deploy's hook installed: the hook prints and
\* calls lib_undeploy(&fh, &vh, dbg).
Panic(t) ==
  /\ hook.installed
  /\ err' = Append(err, "panic: cleaning up Terraform")
  /\ Call(t, "undeploy", [file |-> hook.fh, vars |-> hook.vh], "hook")

\* run_deploy: mpsc::channel() and Signals::new(..)?; on Err the function
\* returns and its locals, the guard among them, are dropped.
SignalsNew ==
  /\ pc["main"] = "signals_new"
  /\ \E ok \in BOOLEAN :
       IF ok
       THEN /\ registered' = TRUE
            /\ txAlive' = TRUE
            /\ Goto("main", "spawn")
            /\ UNCHANGED <<fn, caller, arg, src, wd, guard>>
       ELSE /\ DropGuard("drop_err")
            /\ UNCHANGED <<registered, txAlive>>
  /\ UNCHANGED <<argv, stdout, outputs,
                 cmd, file, vars, canon, work, hook, pending, chan, sigs,
                 log, err, exit>>

\* run_deploy: thread::spawn of the listener (which panics when the OS
\* cannot create the thread), then the "Resources deployed" message.
SpawnListener ==
  /\ pc["main"] = "spawn"
  /\ \E ok \in BOOLEAN :
       IF ok
       THEN /\ pc' = [pc EXCEPT !["main"] = "recv", !["listener"] = "forever"]
            /\ UNCHANGED <<fn, caller, arg, src, wd, err, txAlive>>
       ELSE /\ Panic("main")
            /\ txAlive' = FALSE
  /\ UNCHANGED <<argv, stdout, outputs,
                 cmd, file, vars, canon, work, guard, hook, registered,
                 pending, chan, sigs, log, exit>>

\* The listener thread: `for _ in signals.forever() { tx.send(()); break }`,
\* after which the thread ends and its Sender is dropped.
ListenerForward ==
  /\ pc["listener"] = "forever"
  /\ pending
  /\ pending' = FALSE
  /\ chan' = chan + 1
  /\ txAlive' = FALSE
  /\ Goto("listener", "done")
  /\ UNCHANGED <<argv, stdout, outputs,
                 cmd, file, vars, canon, work, fn, caller, arg, src, wd, guard,
                 hook, registered, sigs, log, err, exit>>

\* ListenerPanic in which the Sender is gone before the hook has run.
ListenerPanicDroppingSender ==
  /\ pc["listener"] = "forever"
  /\ Panic("listener")
  /\ txAlive' = FALSE
  /\ UNCHANGED <<argv, stdout, outputs,
                 cmd, file, vars, canon, work, guard, hook, registered,
                 pending, chan, sigs, log, exit>>

\* The listener thread: signals.forever() panics on an unexpected error of
\* its read end.
ListenerPanic ==
  /\ pc["listener"] = "forever"
  /\ Panic("listener")
  /\ UNCHANGED <<argv, stdout, outputs,
                 cmd, file, vars, canon, work, guard, hook, registered,
                 pending, chan, txAlive, sigs, log, exit>>

\* Recv that does not block on the channel.
RecvWithoutWaiting ==
  /\ pc["main"] = "recv"
  /\ chan' = IF chan > 0 THEN chan - 1 ELSE chan
  /\ DropGuard("drop")
  /\ UNCHANGED <<argv, stdout, outputs,
                 cmd, file, vars, canon, work, hook, registered, pending,
                 txAlive, sigs, log, err, exit>>

\* run_deploy: `let _ = rx.recv()` returns on a message or when the Sender
\* is gone; then the message is printed and drop(guard) runs.
Recv ==
  /\ pc["main"] = "recv"
  /\ chan > 0 \/ ~txAlive
  /\ chan' = IF chan > 0 THEN chan - 1 ELSE chan
  /\ DropGuard("drop")
  /\ UNCHANGED <<argv, stdout, outputs,
                 cmd, file, vars, canon, work, hook, registered, pending,
                 txAlive, sigs, log, err, exit>>

\* HookReturns that calls the previous hook only after a successful cleanup.
HookReturnsSkippingPrevious(t) ==
  /\ pc[t] \in {"ret_ok", "ret_err"}
  /\ caller[t] = "hook"
  /\ err' = IF pc[t] = "ret_err"
            THEN Append(err, "cleanup after panic failed")
            ELSE Append(err, "previous hook")
  /\ Goto(t, "unwind")
  /\ UNCHANGED <<argv, stdout, outputs,
                 cmd, file, vars, canon, work, fn, caller, arg, src, wd, guard,
                 hook, registered, pending, chan, txAlive, sigs, log, exit>>

\* The panic hook after lib_undeploy returned: report an Err, then call the
\* previously registered hook; the thread then starts to unwind.
HookReturns(t) ==
  /\ pc[t] \in {"ret_ok", "ret_err"}
  /\ caller[t] = "hook"
  /\ err' = (IF pc[t] = "ret_err"
             THEN Append(err, "cleanup after panic failed") ELSE err)
            \o <<"previous hook">>
  /\ Goto(t, "unwind")
  /\ UNCHANGED <<argv, stdout, outputs,
                 cmd, file, vars, canon, work, fn, caller, arg, src, wd, guard,
                 hook, registered, pending, chan, txAlive, sigs, log, exit>>

\* Unwinding run_deploy on the main thread drops its locals: the guard.
UnwindMain ==
  /\ pc["main"] = "unwind"
  /\ DropGuard("drop_unwind")
  /\ UNCHANGED <<argv, stdout, outputs,
                 cmd, file, vars, canon, work, hook, registered, pending,
                 chan, txAlive, sigs, log, err, exit>>

\* Unwinding the listener's closure drops signals and tx; the thread ends.
UnwindListener ==
  /\ pc["listener"] = "unwind"
  /\ txAlive' = FALSE
  /\ Goto("listener", "done")
  /\ UNCHANGED <<argv, stdout, outputs,
                 cmd, file, vars, canon, work, fn, caller, arg, src, wd, guard,
                 hook, registered, pending, chan, sigs, log, err, exit>>

Exited == [t \in Threads |-> "exited"]

\* GuardDropReturns that hands the Err of lib_undeploy on to run_deploy's
\* caller.
GuardDropReturnsRaising ==
  /\ pc["main"] \in {"ret_ok", "ret_err"}
  /\ caller["main"] \in {"drop", "drop_err", "drop_unwind"}
  /\ err' = IF pc["main"] = "ret_err"
            THEN Append(err, "Failed to destroy Terraform resources") ELSE err
  /\ IF caller["main"] = "drop_unwind"
     THEN pc' = Exited /\ exit' = "101"
     ELSE /\ Goto("main", IF caller["main"] = "drop" /\ pc["main"] = "ret_ok"
                          THEN "run_ok" ELSE "run_err")
          /\ exit' = exit
  /\ UNCHANGED <<argv, stdout, outputs,
                 cmd, file, vars, canon, work, fn, caller, arg, src, wd, guard,
                 hook, registered, pending, chan, txAlive, sigs, log>>

\* DestroyGuard::drop after lib_undeploy returned: an Err is only printed.
\* What follows depends on why the guard was dropped: `Ok(())` of
\* run_deploy, the Err of Signals::new, or the end of the unwinding main
\* thread (exit status 101).
GuardDropReturns ==
  /\ pc["main"] \in {"ret_ok", "ret_err"}
  /\ caller["main"] \in {"drop", "drop_err", "drop_unwind"}
  /\ err' = IF pc["main"] = "ret_err"
            THEN Append(err, "Failed to destroy Terraform resources") ELSE err
  /\ IF caller["main"] = "drop_unwind"
     THEN pc' = Exited /\ exit' = "101"
     ELSE /\ Goto("main", IF caller["main"] = "drop" THEN "run_ok" ELSE "run_err")
          /\ exit' = exit
  /\ UNCHANGED <<argv, stdout, outputs,
                 cmd, file, vars, canon, work, fn, caller, arg, src, wd, guard,
                 hook, registered, pending, chan, txAlive, sigs, log>>

\* run_undeploy that drops the Result of lib_undeploy.
UndeployReturnsSwallowing ==
  /\ pc["main"] \in {"ret_ok", "ret_err"}
  /\ fn["main"] = "undeploy"
  /\ caller["main"] = "cmd"
  /\ Goto("main", "run_ok")
  /\ UNCHANGED <<argv, stdout, outputs,
                 cmd, file, vars, canon, work, fn, caller, arg, src, wd, guard,
                 hook, registered, pending, chan, txAlive, sigs, log, err, exit>>

\* run_undeploy: `lib_undeploy(..)?; Ok(())`.
UndeployReturns ==
  /\ pc["main"] \in {"ret_ok", "ret_err"}
  /\ fn["main"] = "undeploy"
  /\ caller["main"] = "cmd"
  /\ Goto("main", IF pc["main"] = "ret_ok" THEN "run_ok" ELSE "run_err")
  /\ UNCHANGED <<argv, stdout, outputs,
                 cmd, file, vars, canon, work, fn, caller, arg, src, wd, guard,
                 hook, registered, pending, chan, txAlive, sigs, log, err, exit>>

\* Main that reports the error but leaves through the normal return.
MainExitsZero ==
  /\ pc["main"] \in {"run_ok", "run_err"}
  /\ err' = IF pc["main"] = "run_err" THEN Append(err, "Error") ELSE err
  /\ exit' = "0"
  /\ pc' = Exited
  /\ UNCHANGED <<argv, stdout, outputs,
                 cmd, file, vars, canon, work, fn, caller, arg, src, wd, guard,
                 hook, registered, pending, chan, txAlive, sigs, log>>

\* main: run().unwrap_or_else(|err| { eprintln!(..); process::exit(1) }).
Main ==
  /\ pc["main"] \in {"run_ok", "run_err"}
  /\ err' = IF pc["main"] = "run_err" THEN Append(err, "Error") ELSE err
  /\ exit' = IF pc["main"] = "run_err" THEN "1" ELSE "0"
  /\ pc' = Exited
  /\ UNCHANGED <<argv, stdout, outputs,
                 cmd, file, vars, canon, work, fn, caller, arg, src, wd, guard,
                 hook, registered, pending, chan, txAlive, sigs, log>>

----------------------------------------------------------------------------
(* The environment *)

\* SIGINT or SIGTERM is delivered: with the default disposition the process
\* is terminated; once Signals::new registered them, signal-hook records the
\* signal for the iterator (and keeps doing so after the iterator is gone).
Signal ==
  /\ exit = "running"
  /\ sigs < MaxSignals
  /\ sigs' = sigs + 1
  /\ IF registered
     THEN pending' = TRUE /\ UNCHANGED <<pc, exit>>
     ELSE pc' = Exited /\ exit' = "killed" /\ UNCHANGED pending
  /\ UNCHANGED <<argv, stdout, outputs,
                 cmd, file, vars, canon, work, fn, caller, arg, src, wd, guard,
                 hook, registered, chan, txAlive, log, err>>

\* The directory component of the given path is a symbolic link and is
\* pointed at another directory.
Retarget ==
  /\ exit = "running"
  /\ file = "link/main.tf"
  /\ canon \in Dirs
  /\ \E d \in Dirs \ {canon} : canon' = d
  /\ UNCHANGED <<argv, stdout, outputs,
                 cmd, file, vars, work, pc, fn, caller, arg, src, wd, guard,
                 hook, registered, pending, chan, txAlive, sigs, log, err, exit>>

\* The configuration file is removed.
Remove ==
  /\ exit = "running"
  /\ canon \in Dirs
  /\ canon' = NoDir
  /\ UNCHANGED <<argv, stdout, outputs,
                 cmd, file, vars, work, pc, fn, caller, arg, src, wd, guard,
                 hook, registered, pending, chan, txAlive, sigs, log, err, exit>>

----------------------------------------------------------------------------

\* A command line that run() parses to the given command, path and variables.
CommandLine(c, f, m) ==
  <<Arg(0, "atar"), Arg(0, c), Arg(2, "terraform-path"), Arg(0, f)>>
    \o (IF "region" \in DOMAIN m
        THEN <<Arg(2, "region"), Arg(0, m["region"])>> ELSE <<>>)
    \o (IF "name" \in DOMAIN m
        THEN <<Arg(2, "name"), Arg(0, m["name"])>> ELSE <<>>)

\* The state in which run() has parsed the command line and is about to call
\* run_deploy or run_undeploy.
Init ==
  /\ cmd \in {"deploy", "undeploy"}
  /\ file \in Paths
  /\ vars \in VarMaps
  /\ argv = CommandLine(cmd, file, vars)
  /\ stdout = NoDocument
  /\ outputs = NoOutputs
  /\ canon \in (IF file = "link/main.tf" THEN Dirs ELSE {"/cfg"})
  /\ work \in [WorkDirs -> {"absent", "full"}]
  /\ pc = [t \in Threads |-> IF t = "main" THEN "start" ELSE "unborn"]
  /\ fn = [t \in Threads |-> None]
  /\ caller = [t \in Threads |-> None]
  /\ arg = [t \in Threads |-> [file |-> None, vars |-> <<>>]]
  /\ src = [t \in Threads |-> None]
  /\ wd = [t \in Threads |-> None]
  /\ guard = [state |-> "none", file |-> None, vars |-> <<>>]
  /\ hook = [installed |-> FALSE, fh |-> None, vh |-> <<>>]
  /\ registered = FALSE
  /\ pending = FALSE
  /\ chan = 0
  /\ txAlive = FALSE
  /\ sigs = 0
  /\ log = <<>>
  /\ err = <<>>
  /\ exit = "running"

Lib(t) ==
  \/ ProbeStart(t) \/ ProbeFinish(t)
  \/ Canonicalize(t)
  \/ PrepareWorkDir(t)
  \/ InitStart(t) \/ InitFinish(t)
  \/ ApplyStart(t) \/ ApplyFinish(t)
  \/ OutputStart(t) \/ OutputFinish(t)
  \/ DestroyStart(t) \/ DestroyFinish(t)

Next ==
  \/ Run
  \/ \E t \in Threads : Lib(t)
  \/ DeployReturns \/ SetPanicHook \/ SignalsNew \/ SpawnListener
  \/ ListenerForward \/ ListenerPanic
  \/ Recv
  \/ \E t \in Threads : HookReturns(t)
  \/ UnwindMain \/ UnwindListener
  \/ GuardDropReturns \/ UndeployReturns
  \/ Main
  \/ Signal \/ Retarget \/ Remove

Spec == Init /\ [][Next]_vars_all

\* One terraform invocation of the deploy command that has exited with
\* status 0.
Done(sub, dir, args, out) ==
  [sub |-> sub, dir |-> dir, args |-> args, by |-> "main", caller |-> "cmd",
   stdout |-> out, status |-> "ok"]

\* deploy at lib.rs:125: `terraform output -json` has exited with status 0
\* and its stdout is about to be decoded.
InitDecode ==
  /\ stdout \in Documents
  /\ outputs = NoOutputs
  /\ cmd = "deploy"
  /\ file = "/cfg/main.tf"
  /\ vars = <<>>
  /\ argv = CommandLine(cmd, file, vars)
  /\ canon = "/cfg"
  /\ work = [w \in WorkDirs |-> IF w = WorkDirOf("/cfg") THEN "full" ELSE "absent"]
  /\ pc = [t \in Threads |-> IF t = "main" THEN "decode" ELSE "unborn"]
  /\ fn = [t \in Threads |-> IF t = "main" THEN "deploy" ELSE None]
  /\ caller = [t \in Threads |-> IF t = "main" THEN "cmd" ELSE None]
  /\ arg = [t \in Threads |->
              IF t = "main" THEN Request ELSE [file |-> None, vars |-> <<>>]]
  /\ src = [t \in Threads |-> IF t = "main" THEN "/cfg" ELSE None]
  /\ wd = [t \in Threads |-> IF t = "main" THEN WorkDirOf("/cfg") ELSE None]
  /\ guard = [state |-> "none", file |-> None, vars |-> <<>>]
  /\ hook = [installed |-> FALSE, fh |-> None, vh |-> <<>>]
  /\ registered = FALSE
  /\ pending = FALSE
  /\ chan = 0
  /\ txAlive = FALSE
  /\ sigs = 0
  /\ log = << Done("-version", ".", <<"-version">>, None),
              Done("init", WorkDirOf("/cfg"), InitArgs, None),
              Done("apply", WorkDirOf("/cfg"), ApplyArgs(<<>>, <<>>), None),
              Done("output", WorkDirOf("/cfg"), OutputArgs,
                   IF stdout.kind = "object" THEN "object" ELSE "malformed") >>
  /\ err = <<>>
  /\ exit = "running"

SpecDecode == InitDecode /\ [][DecodeOutputs]_vars_all

\* The process has been started with a command line and run is about to
\* read it.
InitRun ==
  /\ argv \in CommandLines
  /\ stdout = NoDocument
  /\ outputs = NoOutputs
  /\ cmd = None
  /\ file = None
  /\ vars = <<>>
  /\ canon = "/cfg"
  /\ work = [w \in WorkDirs |-> "absent"]
  /\ pc = [t \in Threads |-> IF t = "main" THEN "args" ELSE "unborn"]
  /\ fn = [t \in Threads |-> None]
  /\ caller = [t \in Threads |-> None]
  /\ arg = [t \in Threads |-> [file |-> None, vars |-> <<>>]]
  /\ src = [t \in Threads |-> None]
  /\ wd = [t \in Threads |-> None]
  /\ guard = [state |-> "none", file |-> None, vars |-> <<>>]
  /\ hook = [installed |-> FALSE, fh |-> None, vh |-> <<>>]
  /\ registered = FALSE
  /\ pending = FALSE
  /\ chan = 0
  /\ txAlive = FALSE
  /\ sigs = 0
  /\ log = <<>>
  /\ err = <<>>
  /\ exit = "running"

SpecRun == InitRun /\ [][ParseArguments \/ Main]_vars_all

\* The steps of the process itself, as opposed to those of its environment.
Program ==
  \/ Run
  \/ \E t \in Threads : Lib(t)
  \/ DeployReturns \/ SetPanicHook \/ SignalsNew \/ SpawnListener
  \/ ListenerForward \/ ListenerPanic
  \/ Recv
  \/ \E t \in Threads : HookReturns(t)
  \/ UnwindMain \/ UnwindListener
  \/ GuardDropReturns \/ UndeployReturns
  \/ Main

\* Threads that can run are scheduled, and every terraform child exits.
FairSpec == Spec /\ WF_vars_all(Program)

----------------------------------------------------------------------------
(* Observations on the history *)

Invocations(sub) == {i \in DOMAIN log : log[i].sub = sub}
Count(sub) == Cardinality(Invocations(sub))
Succeeded(sub) == {i \in Invocations(sub) : log[i].status = "ok"}
Failed(sub) ==
  {i \in Invocations(sub) : log[i].status \in {"failed", "launch_failed"}}
Panicked == \E i \in DOMAIN err : err[i] = "panic: cleaning up Terraform"
ExitedByItself == exit \in {"0", "1", "101"}

----------------------------------------------------------------------------
(* C1 *)

\* C1: in every run of the deploy command, whatever combination of panic,
\* signal and guard drop occurs, `terraform destroy` is invoked at most once.
C1_SingleFireTeardown == cmd = "deploy" => Count("destroy") <= 1

----------------------------------------------------------------------------
(* C2 *)

OutputUnusable ==
  \E i \in Invocations("output") :
    \/ log[i].status \in {"failed", "launch_failed"}
    \/ log[i].status = "ok" /\ log[i].stdout = "malformed"

\* C2: a deploy run whose apply succeeded and whose `output -json` then
\* failed or printed something that is not JSON has invoked destroy exactly
\* once by the time the process exits.
C2_TeardownAfterOutputFailure ==
  (cmd = "deploy" /\ ExitedByItself /\ Succeeded("apply") # {} /\ OutputUnusable)
    => Count("destroy") = 1

----------------------------------------------------------------------------
(* C3 *)

\* Every lib_undeploy call made for teardown starts with a version probe.
TeardownAttempts == {i \in Invocations("-version") : log[i].caller # "cmd"}
SignalsNewFailed == caller["main"] = "drop_err"
Finished(i) == log[i].status \in {"ok", "failed", "launch_failed"}

C3_NoTeardownBeforeSignal ==
  (cmd = "deploy" /\ sigs = 0 /\ ~Panicked /\ ~SignalsNewFailed)
    => /\ TeardownAttempts = {} /\ Count("destroy") = 0
       /\ pc["listener"] \notin {"unborn", "exited"} => pc["main"] = "recv"

C3_ReturnsAfterTeardown ==
  (cmd = "deploy" /\ (pc["main"] = "run_ok" \/ exit = "0"))
    => /\ \E i \in TeardownAttempts : log[i].caller = "drop"
       /\ \A i \in DOMAIN log : Finished(i)
       /\ (\E i \in Invocations("destroy") : log[i].caller = "drop")
            <=> wd["main"] # None

----------------------------------------------------------------------------
(* C4 *)

NoTeardownTrigger ==
  guard.state = "none" /\ ~hook.installed /\ ~registered

\* C4: a deploy run whose apply failed (nonzero exit or launch failure) never
\* invokes destroy, and neither the guard nor the panic hook nor the signal
\* listener exists in it.
C4_FailedApplyNeverDestroys ==
  (cmd = "deploy" /\ Failed("apply") # {})
    => Count("destroy") = 0 /\ NoTeardownTrigger /\ pc["listener"] \in {"unborn", "exited"}

C4_Witness ==
  cmd = "deploy" /\ Failed("apply") # {} /\ exit = "1"

----------------------------------------------------------------------------
(* C5 *)

OkBefore(sub, i) == \E j \in Succeeded(sub) : j < i

\* C5: in a deploy run apply is started only after init exited successfully,
\* output only after apply exited successfully, and destroy never before
\* apply exited successfully.
C5_StagesOrderedAndGated ==
  cmd = "deploy" =>
    /\ \A i \in Invocations("apply") : OkBefore("init", i)
    /\ \A i \in Invocations("output") : OkBefore("apply", i)
    /\ \A i \in Invocations("destroy") : OkBefore("apply", i)

C5_Witness ==
  /\ cmd = "deploy"
  /\ Count("apply") = 1 /\ Count("output") = 1 /\ Count("destroy") = 1
  /\ exit = "0"

----------------------------------------------------------------------------
(* C6 *)

\* C6: when init fails during deploy, no apply, output or destroy is invoked
\* in that run, no teardown trigger is installed, and a process that exits
\* (rather than being terminated by a signal's default action) exits with 1.
C6_FailedInitIsFatal ==
  (cmd = "deploy" /\ Failed("init") # {})
    => /\ Count("apply") = 0 /\ Count("output") = 0 /\ Count("destroy") = 0
       /\ NoTeardownTrigger
       /\ exit \in {"running", "1", "killed"}
       /\ pc["main"] \in {"ret_err", "run_err", "exited"}

C6_Witness ==
  /\ cmd = "deploy"
  /\ \E i \in Invocations("init") : log[i].status = "failed"
  /\ exit = "1"

----------------------------------------------------------------------------
(* C7 *)

ProbeFailedInCommand ==
  \E i \in Failed("-version") : log[i].caller = "cmd"

NoSubcommand ==
  /\ Count("init") = 0 /\ Count("apply") = 0
  /\ Count("output") = 0 /\ Count("destroy") = 0

UpToProbeOfCommand ==
  /\ pc["main"] \in {"start", "probe", "probe_wait"}
  /\ caller["main"] \in {None, "cmd"}

\* C7: for deploy and undeploy, when the version probe cannot be launched or
\* exits nonzero, no init/apply/output/destroy is ever invoked, and the
\* directories under <temp>/atar are as they were when the process started:
\* no step up to the probe, and no step after its failure, changes them.
C7_FailedProbeMutatesNothing ==
  /\ [](ProbeFailedInCommand => NoSubcommand)
  /\ [][(UpToProbeOfCommand \/ ProbeFailedInCommand) => work' = work]_vars_all

C7_Witness ==
  /\ ProbeFailedInCommand
  /\ exit = "1"
  /\ \E d \in Dirs : canon = d /\ work[WorkDirOf(d)] = "absent"

----------------------------------------------------------------------------
(* C8 *)

DestroyInFlight == \E i \in Invocations("destroy") : log[i].status = "running"

C8_AtMostOnce ==
  (cmd = "deploy" /\ ~Panicked)
    => /\ Cardinality(TeardownAttempts) <= 1
       /\ Count("destroy") <= 1
       /\ exit = "0" => /\ Cardinality(TeardownAttempts) = 1
                        /\ Count("destroy") = 1 <=> wd["main"] # None

----------------------------------------------------------------------------
(* C9 *)

\* C9: in a deploy run, every destroy is invoked in the working directory in
\* which that run's apply was executed.
C9_TeardownInApplyDirectory ==
  cmd = "deploy" =>
    \A i \in Invocations("destroy") : \A j \in Invocations("apply") :
      log[i].dir = log[j].dir

----------------------------------------------------------------------------
(* C10 *)

\* args is <<sub, "-auto-approve">> followed by one <<"-var", "k=v">> pair per
\* entry of m, in some order of the entries.
OnePairPerEntry(args, sub, m) ==
  /\ Len(args) = 2 + 2 * Cardinality(DOMAIN m)
  /\ args[1] = sub /\ args[2] = "-auto-approve"
  /\ \E ks \in Orders(m) :
       \A n \in DOMAIN ks :
         /\ args[2 * n + 1] = "-var"
         /\ args[2 * n + 2] = ks[n] \o "=" \o m[ks[n]]

AssignmentsOf(args) == {args[2 * n + 2] : n \in 1..((Len(args) - 2) \div 2)}

\* C10: init and output receive no -var argument; apply and destroy each
\* receive -auto-approve and then exactly one -var key=value pair per entry
\* of the request's variable map, so destroy is given the set of assignments
\* that apply was given.
C10_VariablesPassedToApplyAndDestroy ==
  /\ \A i \in Invocations("init") : log[i].args = <<"init">>
  /\ \A i \in Invocations("output") : log[i].args = <<"output", "-json">>
  /\ \A i \in Invocations("apply") : OnePairPerEntry(log[i].args, "apply", vars)
  /\ \A i \in Invocations("destroy") : OnePairPerEntry(log[i].args, "destroy", vars)
  /\ \A i \in Invocations("apply") : \A j \in Invocations("destroy") :
       AssignmentsOf(log[i].args) = AssignmentsOf(log[j].args)

C10_Witness ==
  /\ cmd = "deploy"
  /\ Cardinality(DOMAIN vars) = 2
  /\ \E i \in Invocations("apply") : \E j \in Invocations("destroy") :
       /\ log[j].caller = "drop"
       /\ SubSeq(log[i].args, 3, 6) # SubSeq(log[j].args, 3, 6)

----------------------------------------------------------------------------
(* C11 *)

TeardownCallers == {"drop", "drop_err", "drop_unwind", "hook"}
Messages(m) == {i \in DOMAIN err : err[i] = m}
ByCaller(S, who) == {i \in S : log[i].caller = who}
TeardownFailed(who) ==
  /\ ByCaller(TeardownAttempts, who) # {}
  /\ \/ \E i \in ByCaller(DOMAIN log, who) :
          log[i].status \in {"failed", "launch_failed"}
     \/ ByCaller(Invocations("destroy"), who) = {} /\ ExitedByItself

\* What holds of each trigger of the teardown taken alone: the caller that
\* triggered it makes one attempt only, a failure of the attempt leaves one
\* message on the error stream, and the process exits with the status it was
\* heading for (0 after the signal path, 1 after a failed Signals::new, 101
\* after a panic on the main thread).
C11_ReportedByEachTrigger ==
  cmd = "deploy" =>
    /\ \A who \in TeardownCallers :
         /\ Cardinality(ByCaller(TeardownAttempts, who)) <= 1
         /\ Cardinality(ByCaller(Invocations("destroy"), who)) <= 1
    /\ ExitedByItself =>
         /\ ByCaller(TeardownAttempts, "drop") # {} => exit = "0" /\ Messages("Error") = {}
         /\ ByCaller(TeardownAttempts, "drop_err") # {} => exit = "1"
         /\ ByCaller(TeardownAttempts, "drop_unwind") # {} => exit = "101"
         /\ \A who \in {"drop", "drop_err", "drop_unwind"} :
              TeardownFailed(who) =>
                Cardinality(Messages("Failed to destroy Terraform resources")) = 1
         /\ TeardownFailed("hook") =>
              Cardinality(Messages("cleanup after panic failed")) = 1

FailedTeardownSteps ==
  {i \in DOMAIN log : /\ log[i].caller \in TeardownCallers
                      /\ log[i].status \in {"failed", "launch_failed"}}

\* C11: a failure of the teardown run by the guard or by the panic hook is
\* written to the error stream and nothing else follows from it: no terraform
\* invocation comes after the failed one (the teardown is not tried again),
\* and the process exits with the status it was heading for.
C11_TeardownFailureOnlyReported ==
  /\ C11_ReportedByEachTrigger
  /\ cmd = "deploy" => \A i \in FailedTeardownSteps : i = Len(log)

C11_Witness ==
  /\ cmd = "deploy" /\ exit = "0"
  /\ \E i \in ByCaller(Invocations("destroy"), "drop") : log[i].status = "failed"

----------------------------------------------------------------------------
(* C12 *)

\* C12: a prepare_work_dir call returns <temp>/atar/<sha256 of the source
\* directory>, whichever call it is, and a directory under <temp>/atar that
\* exists is never written again: a call that finds it performs no copy.
C12_PrepareIdempotent ==
  /\ [][\A t \in Threads :
          (pc[t] = "prepare" /\ pc'[t] \in {"init", "destroy"})
            => wd'[t] = "/tmp/atar/" \o Sha256Hex(src[t])]_vars_all
  /\ [][\A w \in WorkDirs : work[w] # "absent" => work'[w] = work[w]]_vars_all

C12_Witness ==
  /\ cmd = "deploy"
  /\ caller["main"] = "drop" /\ pc["main"] = "destroy"
  /\ \E i \in Invocations("init") : log[i].dir = wd["main"]

----------------------------------------------------------------------------
(* C14 *)

\* C14: a standalone undeploy never invokes init, apply or output and never
\* invokes destroy twice; when its working directory does not exist, prepare
\* copies the source into it before destroy starts; and a run that returns
\* success has made exactly two invocations: the version probe, then
\* `destroy -auto-approve` with one -var per variable in that directory.
C14_StandaloneUndeploy ==
  /\ [](cmd = "undeploy" =>
          /\ Count("init") = 0 /\ Count("apply") = 0 /\ Count("output") = 0
          /\ Count("destroy") <= 1
          /\ exit = "0" =>
               /\ Len(log) = 2
               /\ log[1].sub = "-version" /\ log[1].status = "ok"
               /\ log[2].sub = "destroy" /\ log[2].status = "ok"
               /\ log[2].dir = "/tmp/atar/" \o Sha256Hex(src["main"])
               /\ work[log[2].dir] # "absent"
               /\ OnePairPerEntry(log[2].args, "destroy", vars)
               /\ err = <<>>)
  /\ [][(cmd = "undeploy" /\ pc["main"] = "prepare" /\ pc'["main"] = "destroy"
           /\ work[WorkDirOf(src["main"])] = "absent")
          => work'[WorkDirOf(src["main"])] = "full"]_vars_all

C14_Witness ==
  /\ cmd = "undeploy" /\ exit = "0"
  /\ Cardinality(DOMAIN vars) = 2
  /\ work[log[2].dir] = "full"

----------------------------------------------------------------------------
(* C15 *)

StageFailures == {i \in DOMAIN log : log[i].caller = "cmd"
                                     /\ log[i].status \in {"failed", "launch_failed"}}
CommandFailed ==
  caller["main"] = "cmd" /\ pc["main"] \in {"ret_err", "run_err"}

\* C15: in the command's own deploy or undeploy call a failed invocation is
\* the last invocation of the run and no stage runs twice; after a failure
\* of any stage the process does nothing but report and exit; a process that
\* exits with 1 has written the error last, and a process that exits having
\* written nothing has exited with 0.
C15_AbortAndReport ==
  /\ \A i \in StageFailures : i = Len(log)
  /\ \A sub \in {"-version", "init", "apply", "output", "destroy"} :
       Cardinality(ByCaller(Invocations(sub), "cmd")) <= 1
  /\ CommandFailed =>
       /\ guard.state = "none" /\ ~hook.installed /\ ~registered
       /\ \A i \in DOMAIN log : Finished(i)
  /\ (exit # "running" /\ guard.state = "none")
       => /\ exit \in {"0", "1", "killed"}
          /\ exit = "0" => (cmd = "undeploy" /\ StageFailures = {} /\ Count("destroy") = 1)
  /\ (exit = "1" /\ guard.state = "none")
       => (cmd = "undeploy" => Count("destroy") = 0 \/ StageFailures # {})
  /\ exit = "1" => (err # <<>> /\ err[Len(err)] = "Error")
  /\ (ExitedByItself /\ err = <<>>) => exit = "0"
  /\ exit = "0" => Messages("Error") = {}

C15_Witness ==
  /\ cmd = "deploy" /\ exit = "1"
  /\ \E i \in StageFailures : log[i].sub = "output"

----------------------------------------------------------------------------
(* C16 *)

InHookCleanup(t) ==
  /\ caller[t] = "hook"
  /\ pc[t] \in {"probe", "probe_wait", "canon", "prepare", "destroy",
                "destroy_wait", "ret_ok", "ret_err"}

\* C16: after a panic the previous hook is not called while the hook's
\* lib_undeploy is still running, and it has been called once that call
\* is over, after a successful cleanup and after a failed one alike; the
\* report of a failed cleanup comes before it.
C16_CleanupBeforePreviousHook ==
  /\ (\E t \in Threads : InHookCleanup(t)) => Messages("previous hook") = {}
  /\ (Panicked /\ \A t \in Threads : ~InHookCleanup(t))
       => /\ Cardinality(Messages("previous hook")) = 1
          /\ ByCaller(TeardownAttempts, "hook") # {}
          /\ \A i \in ByCaller(DOMAIN log, "hook") : Finished(i)
  /\ \A i \in Messages("previous hook") :
       /\ \E j \in Messages("panic: cleaning up Terraform") : j < i
       /\ \A j \in Messages("cleanup after panic failed") : j < i

C16_Witness ==
  /\ Messages("previous hook") # {}
  /\ Messages("cleanup after panic failed") # {}
  /\ \E i \in ByCaller(Invocations("destroy"), "hook") : log[i].status = "failed"

----------------------------------------------------------------------------
(* C17 *)

\* C17: every teardown attempt starts with its own version probe; it takes
\* the directory the path resolves to at that moment, not the one deploy
\* resolved; its destroy follows a successful probe of the same attempt and
\* runs in a directory that exists under <temp>/atar; an attempt whose
\* probe, canonicalization or prepare failed invokes no destroy and, once
\* it has returned to the guard, has left one message on the error stream.
C17_TeardownResolvesAgain ==
  /\ [](\A i \in Invocations("destroy") :
          log[i].caller # "cmd" =>
            /\ i > 1
            /\ log[i - 1].sub = "-version" /\ log[i - 1].status = "ok"
            /\ log[i - 1].caller = log[i].caller /\ log[i - 1].by = log[i].by
            /\ log[i].dir \in WorkDirs /\ work[log[i].dir] # "absent")
  /\ [](\A i \in TeardownAttempts :
          log[i].status \in {"failed", "launch_failed"}
            => (i = Len(log) \/ log[i + 1].caller # log[i].caller))
  /\ [](\A who \in {"drop", "drop_err", "drop_unwind"} :
          (ByCaller(TeardownAttempts, who) # {} /\ ExitedByItself
             /\ ByCaller(Invocations("destroy"), who) = {})
            => Messages("Failed to destroy Terraform resources") # {})
  /\ []((/\ ByCaller(TeardownAttempts, "hook") # {}
         /\ ByCaller(Invocations("destroy"), "hook") = {}
         /\ Messages("previous hook") # {})
          => Messages("cleanup after panic failed") # {})
  /\ [][\A t \in Threads :
          (caller[t] # "cmd" /\ pc[t] = "canon" /\ pc'[t] \in {"prepare", "ret_err"})
            => IF canon = NoDir THEN pc'[t] = "ret_err"
               ELSE pc'[t] = "prepare" /\ src'[t] = canon]_vars_all
  /\ [][\A t \in Threads :
          (caller[t] # "cmd" /\ pc[t] = "destroy" /\ pc'[t] = "destroy_wait")
            => log'[Len(log')].dir = WorkDirOf(src[t])]_vars_all

C17_Witness ==
  /\ cmd = "deploy" /\ exit = "0" /\ canon = NoDir
  /\ Count("destroy") = 0
  /\ \E i \in ByCaller(TeardownAttempts, "drop") : log[i].status = "ok"
  /\ Messages("Failed to destroy Terraform resources") # {}

----------------------------------------------------------------------------
(* C18 *)

\* C18: a prepare_work_dir call that finds a partially populated directory
\* changes nothing on the filesystem and returns that directory, so the
\* caller goes on to its next stage in it.
C18_PartialDirectoryReused ==
  [][\A t \in Threads :
       (pc[t] = "prepare" /\ pc'[t] \notin {"prepare", "exited"}
          /\ work[WorkDirOf(src[t])] = "partial")
         => /\ work' = work
            /\ wd'[t] = WorkDirOf(src[t])
            /\ pc'[t] = AfterPrepare(fn[t])]_vars_all

C18_Witness ==
  /\ Messages("cleanup after panic failed") # {}
  /\ \E i \in ByCaller(Invocations("destroy"), "drop_unwind") :
       /\ work[log[i].dir] = "partial"
       /\ \A j \in Invocations("apply") : log[j].dir # log[i].dir

----------------------------------------------------------------------------
(* C19 *)

InFlight == {i \in DOMAIN log : log[i].status = "running"}

\* C19: at no time are two terraform children of the process running.
C19_OneSubprocessAtATime == Cardinality(InFlight) <= 1

C19_Witness ==
  /\ pc["main"] = "recv"
  /\ \E i \in InFlight : log[i].by = "listener" /\ log[i].sub = "destroy"

----------------------------------------------------------------------------
(* C13 *)

\* The JSON text the specification gives for each value that is not a string.
JsonTextOf(val) ==
  CASE val.kind = "number" /\ val.v = 42 -> "42"
    [] val.kind = "number" /\ val.v = -7 -> "-7"
    [] val.kind = "null" -> "null"
    [] val.kind = "bool" /\ val.v -> "true"
    [] val.kind = "array" -> "[1,\"a\"]"
    [] val.kind = "object" -> "{\"k\":\"v\"}"

WithValueField(doc) ==
  {n \in DOMAIN doc.v :
     doc.v[n].kind = "object" /\ \E f \in DOMAIN doc.v[n].v : f = "value"}

Decoded == pc["main"] # "decode"

\* C13: once the captured stdout has been decoded: a document that is a JSON
\* object yields a map with exactly the names whose wrapper has a "value"
\* field, a string value taken verbatim and any other value as its JSON text
\* (42 as "42"), wrappers without "value" being left out without an error;
\* any other document makes deploy return an error.
C13_OutputDecoding ==
  Decoded =>
    IF stdout.kind = "object"
    THEN /\ outputs.result = "ok"
         /\ pc["main"] = "ret_ok"
         /\ DOMAIN outputs.map = WithValueField(stdout)
         /\ \A n \in WithValueField(stdout) :
              LET val == stdout.v[n].v["value"] IN
                outputs.map[n] =
                  IF val.kind = "string" THEN val.v ELSE JsonTextOf(val)
    ELSE /\ outputs.result = "error"
         /\ pc["main"] = "ret_err"

C13_Witness ==
  /\ Decoded
  /\ stdout = JObject(("foo" :> JObject("value" :> JString("bar")))
                        @@ ("n" :> JObject("value" :> JNumber(42)))
                        @@ ("x" :> JObject(<<>>)))
  /\ outputs = DecodeOk(("foo" :> "bar") @@ ("n" :> "42"))

----------------------------------------------------------------------------
(* C20 *)

\* The arguments after the command, every "--debug" left out.
Given == Retain(argv)
Rest == SubSeq(Given, 3, Len(Given))
Commanded ==
  Len(Given) >= 2 /\ Given[2] \in {Arg(0, "deploy"), Arg(0, "undeploy")}
HelpAsked == Rest # <<>> /\ Rest[1] \in {Arg(1, "h"), Arg(2, "help")}

\* The arguments are flag-value pairs, a flag being the path flag or
\* --<name>, and one of the pairs gives the path.
FlagPlaces == {i \in 1..Len(Rest) : i % 2 = 1}
PathPlaces ==
  {i \in FlagPlaces : Rest[i] \in {Arg(1, "t"), Arg(2, "terraform-path")}}
NamePlaces == {i \in FlagPlaces \ PathPlaces : Rest[i].dashes = 2}
WellFormed ==
  /\ Len(Rest) % 2 = 0
  /\ FlagPlaces = PathPlaces \cup NamePlaces
  /\ PathPlaces # {}

Last(S) == CHOOSE i \in S : \A j \in S : j <= i

Rejected ==
  /\ pc["main"] \in {"run_err", "exited"}
  /\ exit \in {"running", "1"}
  /\ exit = "1" => err = <<"Error">>
  /\ cmd = None
  /\ log = <<>>
  /\ \A w \in WorkDirs : work[w] = "absent"

Accepted ==
  /\ pc["main"] = "start"
  /\ exit = "running" /\ err = <<>> /\ log = <<>>
  /\ cmd = Given[2].rest
  /\ file = Text(Rest[Last(PathPlaces) + 1])
  /\ DOMAIN vars = {Rest[i].rest : i \in NamePlaces}
  /\ \A k \in DOMAIN vars :
       vars[k] = Text(Rest[Last({i \in NamePlaces : Rest[i].rest = k}) + 1])

HelpPrinted ==
  /\ pc["main"] \in {"run_ok", "exited"}
  /\ exit \in {"running", "0"}
  /\ err = <<>> /\ log = <<>> /\ cmd = None
  /\ \A w \in WorkDirs : work[w] = "absent"

====
